---- MODULE Spec2Model ----
(***************************************************************************)
(* Batch extraction pipeline of OllamaPDF2Markdown: the page loop          *)
(* (process_images_with_model) and its caller (main) in the five script    *)
(* variants pdf2md.py, png2md.py, pdf_to_markdown_gui.py, src/pdf2mdv2.py  *)
(* and src/pdf_to_markdown_guiv2.py.                                       *)
(*                                                                         *)
(* A page is identified by the sort key of its file name (a number).       *)
(* A markdown string is a sequence of tokens: the token p > 0 stands for   *)
(* the content field the model returns for page p, the token 0 for the     *)
(* separator "\n\n".                                                       *)
(***************************************************************************)
EXTENDS Integers, Sequences, FiniteSets, TLC

\* ------------------------------------------------------------------ bounds
MaxPages == 12
MaxWriteFailures == 1
MaxPagesFair == 6

\* ------------------------------------------------------- program constants
FlushEvery == 5

Variants == {"pdf2md", "png2md", "gui", "pdf2mdv2", "guiv2"}

FailureKinds == {"missing", "unreadable", "chat", "notdict", "nomessage", "nocontent"}

\* ------------------------------------------------------------ pure helpers
Ascending(n) == [i \in 1..n |-> i]

Descending(n) == [i \in 1..n |-> n + 1 - i]

\* the orders in which os.listdir / the rasterizer may hand over n pages
Listings(n) == {Ascending(n), Descending(n)}

RECURSIVE InsertSorted(_, _)
InsertSorted(x, s) ==
    IF s = <<>> THEN <<x>>
    ELSE IF x <= Head(s) THEN <<x>> \o s
    ELSE <<Head(s)>> \o InsertSorted(x, Tail(s))

RECURSIVE InsertionSort(_)
InsertionSort(s) == IF s = <<>> THEN <<>> ELSE InsertSorted(Head(s), InsertionSort(Tail(s)))

Unsorted(s) == s

\* sorted(image_files): the order the loop iterates in
sorted(s) == InsertionSort(s)

Sep == <<0>>

\* combined_content += content + "\n\n"
Fragment(p) == <<p>> \o Sep

\* pages whose content occurs in a markdown string, in order of occurrence
PagesOf(md) == SelectSeq(md, LAMBDA t : t > 0)

IsAscending(s) == \A i, j \in 1..Len(s) : i < j => s[i] < s[j]

Range(s) == {s[i] : i \in 1..Len(s)}

\* the markdown of pages lo..hi when each of them is extracted Ok
RECURSIVE Fragments(_, _)
Fragments(lo, hi) == IF lo > hi THEN <<>> ELSE Fragments(lo, hi - 1) \o <<hi, 0>>

\* ------------------------------------------------------------------- state
VARIABLES
    variant,           \* which script runs
    image_files,       \* the page images as the Page Source lists them
    pages,             \* sorted(image_files), fixed when the loop starts
    idx,               \* number of loop iterations begun (enumerate index)
    pc,                \* position of the run
    image_data,        \* page whose bytes are bound to image_data, 0 if none
    combined_content,  \* AccumulatedReport
    file,              \* content of the markdown artifact
    created,           \* whether the artifact exists on disk
    flushes,           \* log of save_output calls
    lastCalled,        \* page of the latest ollama.chat call, 0 if none
    outcome,           \* result of the page handled last
    okPages,           \* pages whose extraction was Ok, in the order handled
    raised,            \* the exception that ended the run, "None" if none
    wfails,            \* number of failed save_output calls
    corrupt,           \* whether a source document failed to rasterize
    slept              \* whether time.sleep ran since the latest ollama.chat call

vars == <<variant, image_files, pages, idx, pc, image_data, combined_content,
          file, created, flushes, lastCalled, outcome, okPages, raised, wfails,
          corrupt, slept>>

MemoryTuned == {"pdf2mdv2", "guiv2"}

Basic == {"pdf2md", "png2md"}

Interactive == {"gui", "guiv2"}

\* ----------------------------------------------------------- code policies
\* the exception of the Page Source is logged and not re-raised
SourceFailureSwallowed(v) == "next"

\* where a run goes when the Page Source raises
SourceFailure(v) == IF v \in Interactive THEN "error" ELSE "fatal"

\* no try/except around the page: every failure ends the loop or the run
OnFailureNoIsolation(v, kind) ==
    IF kind \in {"notdict", "nomessage"} THEN {"final"} ELSE {"fatal"}

\* the except clause around open() re-raises
OnFailureReadAborts(v, kind) ==
    IF kind \in {"missing", "unreadable"} THEN {"fatal"} ELSE {"next"}

\* break instead of continue in the response-shape else branch
OnFailureShapeBreaks(v, kind) ==
    IF kind \in {"notdict", "nomessage", "nocontent"} THEN {"final"} ELSE {"next"}

\* the except clause around ollama.chat re-raises
OnFailureChatAborts(v, kind) ==
    IF kind = "chat" THEN {"fatal"} ELSE {"next"}

\* where the loop goes after a page-level failure of the given kind:
\* "next" = continue, "final" = break, "fatal" = exception leaves main,
\* "error" = exception caught and displayed by the GUI's main.
\* Kinds: "missing"/"unreadable" = open() or os.path.exists fails,
\* "chat" = ollama.chat raises, "notdict"/"nomessage" = the isinstance/'message'
\* test fails, "nocontent" = response['message']['content'] raises.
\* In the first GUI the else branch calls st.error with two positional
\* arguments before its break; whether that call raises depends on the
\* installed streamlit, so both the break and the raise are possible.
OnFailure(v, kind) ==
    CASE v \in MemoryTuned -> {"next"}
      [] v \in Basic ->
            IF kind \in {"notdict", "nomessage"} THEN {"final"} ELSE {"fatal"}
      [] v = "gui" ->
            IF kind = "missing" THEN {"next"}
            ELSE IF kind \in {"notdict", "nomessage"} THEN {"final", "error"}
            ELSE {"error"}

\* where a run goes when convert_from_path raises for one document:
\* "start" = the document yields no pages and conversion goes on
OnConversionError(v) == IF v = "guiv2" THEN "start" ELSE SourceFailure(v)

\* whether the script rasterizes PDF documents at all
Rasterizes(v) == v # "png2md"

\* time.sleep(1) at the end of an iteration that was not cut short
Sleeps(v) == v \in MemoryTuned

AdvanceRepeats(i) == IF i = 0 THEN 1 ELSE i

\* for idx, image in enumerate(sorted(image_files), 1)
Advance(i) == i + 1

Overwritten(old, content) == content

\* with open(filename, "a") as f: f.write(content)
save_output(old, content) == old \o content

\* the assignment combined_content = "" is missing
AfterFlushKeeps(content, ok) == content

\* combined_content = "" runs although save_output raised
AfterFlushClears(content, ok) == <<>>

\* save_output(output_filename, combined_content); combined_content = ""
\* the assignment is reached only when save_output returned
AfterFlush(content, ok) == IF ok THEN <<>> ELSE content

\* whether the image bytes stay bound after a failure of the given kind
HeldAfter(v, kind) == v \in MemoryTuned /\ kind = "chat"

FlushNever(v, i) == FALSE

FlushDueOffByOne(v, i) == v = "pdf2mdv2" /\ (i + 1) % FlushEvery = 0

\* if idx % 5 == 0 and output_filename
FlushDue(v, i) == v = "pdf2mdv2" /\ i % FlushEvery = 0

\* if not image_files: st.warning(...); return
ReturnsEarly(v, imgs) == v \in Interactive /\ imgs = <<>>

FinalFlushAlways(content) == TRUE

FinalFlushInverted(content) == content = <<>>

\* if combined_content:
FinalFlushNeeded(content) == content # <<>>

\* where a run goes when the final save_output raises
FinalWriteFailure(v) == IF v \in Interactive THEN "error" ELSE "fatal"

FlushEvent(i, content, final, ok) ==
    [after |-> i, content |-> content, final |-> final, ok |-> ok]

\* -------------------------------------------------------------------- Init
Init ==
    /\ variant \in Variants
    /\ \E n \in 0..MaxPages : image_files \in Listings(n)
    /\ pages = <<>>
    /\ idx = 0
    /\ pc = "start"
    /\ image_data = 0
    /\ combined_content = <<>>
    /\ file = <<>>
    /\ created = FALSE
    /\ flushes = <<>>
    /\ lastCalled = 0
    /\ outcome = "None"
    /\ okPages = <<>>
    /\ raised = "None"
    /\ wfails = 0
    /\ corrupt = FALSE
    /\ slept = FALSE

\* ----------------------------------------------------------------- actions
\* the Page Source delivers the page images; the loop is about to start
Start ==
    /\ pc = "start"
    /\ pages' = sorted(image_files)
    /\ pc' = IF ReturnsEarly(variant, image_files) THEN "done" ELSE "next"
    /\ UNCHANGED <<corrupt, slept, variant, image_files, idx, image_data, combined_content,
                   file, created, flushes, lastCalled, outcome, okPages, raised, wfails>>

\* the Page Source raises (source directory missing, rasterizer error)
SourceUnavailable ==
    /\ pc = "start"
    /\ pc' = SourceFailure(variant)
    /\ raised' = "SourceUnavailable"
    /\ UNCHANGED <<corrupt, slept, variant, image_files, pages, idx, image_data, combined_content,
                   file, created, flushes, lastCalled, outcome, okPages, wfails>>

\* convert_from_path raises for one source document
ConversionError ==
    /\ pc = "start"
    /\ Rasterizes(variant)
    /\ ~corrupt
    /\ corrupt' = TRUE
    /\ pc' = OnConversionError(variant)
    /\ raised' = IF pc' \in {"fatal", "error"} THEN "ConversionError" ELSE raised
    /\ UNCHANGED <<slept, variant, image_files, pages, idx, image_data, combined_content,
                   file, created, flushes, lastCalled, outcome, okPages, wfails>>

\* the next page's file does not exist or cannot be read
ReadFails ==
    /\ pc = "next"
    /\ idx < Len(pages)
    /\ \E kind \in {"missing", "unreadable"} :
          /\ outcome' = kind
          /\ pc' \in OnFailure(variant, kind)
          /\ raised' = IF pc' \in {"fatal", "error"} THEN kind ELSE raised
    /\ idx' = Advance(idx)
    /\ UNCHANGED <<corrupt, slept, variant, image_files, pages, image_data, combined_content,
                   file, created, flushes, lastCalled, okPages, wfails>>

\* the next page's bytes are read and ollama.chat is called with them
SendImage ==
    /\ pc = "next"
    /\ idx < Len(pages)
    /\ idx' = Advance(idx)
    /\ image_data' = pages[idx']
    /\ lastCalled' = pages[idx']
    /\ pc' = "chat"
    /\ slept' = FALSE
    /\ UNCHANGED <<corrupt, variant, image_files, pages, combined_content,
                   file, created, flushes, outcome, okPages, raised, wfails>>

\* ollama.chat raises
ChatRaises ==
    /\ pc = "chat"
    /\ outcome' = "chat"
    /\ pc' \in OnFailure(variant, "chat")
    /\ raised' = IF pc' \in {"fatal", "error"} THEN "chat" ELSE raised
    /\ image_data' = IF HeldAfter(variant, "chat") THEN image_data ELSE 0
    /\ UNCHANGED <<corrupt, slept, variant, image_files, pages, idx, combined_content,
                   file, created, flushes, lastCalled, okPages, wfails>>

\* ollama.chat returns a response without the content field
BadResponse ==
    /\ pc = "chat"
    /\ \E kind \in {"notdict", "nomessage", "nocontent"} :
          /\ outcome' = kind
          /\ pc' \in OnFailure(variant, kind)
          /\ raised' = IF pc' \in {"fatal", "error"} THEN kind ELSE raised
          /\ image_data' = IF HeldAfter(variant, kind) THEN image_data ELSE 0
    /\ UNCHANGED <<corrupt, slept, variant, image_files, pages, idx, combined_content,
                   file, created, flushes, lastCalled, okPages, wfails>>

\* ollama.chat returns {'message': {'content': ...}}
GoodResponse ==
    /\ pc = "chat"
    /\ outcome' = "Ok"
    /\ combined_content' = combined_content \o Fragment(pages[idx])
    /\ okPages' = Append(okPages, pages[idx])
    /\ image_data' = 0
    /\ slept' = Sleeps(variant)
    /\ pc' = IF FlushDue(variant, idx) THEN "flush" ELSE "next"
    /\ UNCHANGED <<corrupt, variant, image_files, pages, idx,
                   file, created, flushes, lastCalled, raised, wfails>>

\* save_output inside the loop succeeds; combined_content = ""
PeriodicFlush ==
    /\ pc = "flush"
    /\ file' = save_output(file, combined_content)
    /\ created' = TRUE
    /\ flushes' = Append(flushes, FlushEvent(idx, combined_content, FALSE, TRUE))
    /\ combined_content' = AfterFlush(combined_content, TRUE)
    /\ pc' = "next"
    /\ UNCHANGED <<corrupt, slept, variant, image_files, pages, idx, image_data,
                   lastCalled, outcome, okPages, raised, wfails>>

\* save_output inside the loop raises before anything is written (makedirs or
\* open fails); the loop's except clause logs it and the loop continues
PeriodicFlushFails ==
    /\ pc = "flush"
    /\ wfails < MaxWriteFailures
    /\ wfails' = wfails + 1
    /\ flushes' = Append(flushes, FlushEvent(idx, combined_content, FALSE, FALSE))
    /\ combined_content' = AfterFlush(combined_content, FALSE)
    /\ pc' = "next"
    /\ UNCHANGED <<corrupt, slept, variant, image_files, pages, idx, image_data,
                   file, created, lastCalled, outcome, okPages, raised>>

\* the for loop is exhausted; process_images_with_model returns
LoopEnd ==
    /\ pc = "next"
    /\ idx = Len(pages)
    /\ pc' = "final"
    /\ image_data' = 0
    /\ UNCHANGED <<corrupt, slept, variant, image_files, pages, idx, combined_content,
                   file, created, flushes, lastCalled, outcome, okPages, raised, wfails>>

\* main: combined_content is non-empty and save_output succeeds
FinalFlush ==
    /\ pc = "final"
    /\ FinalFlushNeeded(combined_content)
    /\ file' = save_output(file, combined_content)
    /\ created' = TRUE
    /\ flushes' = Append(flushes, FlushEvent(idx, combined_content, TRUE, TRUE))
    /\ pc' = "done"
    /\ UNCHANGED <<corrupt, slept, variant, image_files, pages, idx, image_data, combined_content,
                   lastCalled, outcome, okPages, raised, wfails>>

\* main: combined_content is non-empty and save_output raises
FinalFlushFails ==
    /\ pc = "final"
    /\ FinalFlushNeeded(combined_content)
    /\ wfails < MaxWriteFailures
    /\ wfails' = wfails + 1
    /\ flushes' = Append(flushes, FlushEvent(idx, combined_content, TRUE, FALSE))
    /\ pc' = FinalWriteFailure(variant)
    /\ raised' = "WriteError"
    /\ UNCHANGED <<corrupt, slept, variant, image_files, pages, idx, image_data, combined_content,
                   file, created, lastCalled, outcome, okPages>>

\* main: combined_content is empty, nothing is saved
FinalSkip ==
    /\ pc = "final"
    /\ ~FinalFlushNeeded(combined_content)
    /\ pc' = "done"
    /\ UNCHANGED <<corrupt, slept, variant, image_files, pages, idx, image_data, combined_content,
                   file, created, flushes, lastCalled, outcome, okPages, raised, wfails>>

Next ==
    \/ Start
    \/ SourceUnavailable
    \/ ConversionError
    \/ ReadFails
    \/ SendImage
    \/ ChatRaises
    \/ BadResponse
    \/ GoodResponse
    \/ PeriodicFlush
    \/ PeriodicFlushFails
    \/ LoopEnd
    \/ FinalFlush
    \/ FinalFlushFails
    \/ FinalSkip

Spec == Init /\ [][Next]_vars

\* Runs over at most MaxPagesFair pages in which the single-threaded script
\* keeps executing: every external call (open, ollama.chat, time.sleep,
\* save_output) returns or raises.
InitFair == Init /\ Len(image_files) <= MaxPagesFair

FairSpec == InitFair /\ [][Next]_vars /\ WF_vars(Next)

TypeOK ==
    /\ variant \in Variants
    /\ idx \in 0..MaxPages
    /\ pc \in {"start", "next", "chat", "flush", "final", "done", "fatal", "error"}
    /\ image_data \in 0..MaxPages
    /\ lastCalled \in 0..MaxPages
    /\ created \in BOOLEAN
    /\ outcome \in FailureKinds \cup {"None", "Ok"}
    /\ wfails \in 0..MaxWriteFailures
    /\ raised \in FailureKinds \cup {"None", "SourceUnavailable", "ConversionError", "WriteError"}
    /\ corrupt \in BOOLEAN
    /\ slept \in BOOLEAN
    /\ Len(okPages) <= idx

\* ------------------------------------------------------------------ claims
HasFailedFlush == \E k \in 1..Len(flushes) : ~flushes[k].ok

HasFinalFlush == \E k \in 1..Len(flushes) : flushes[k].final

HasPeriodicFlush == \E k \in 1..Len(flushes) : ~flushes[k].final /\ flushes[k].ok

\* C1: in the memory-tuned CLI the page fragments in the artifact are always
\* in ascending page order, whatever pages failed and however the content was
\* split over periodic and final flushes.
C1_OrderPreserved ==
    variant = "pdf2mdv2" => IsAscending(PagesOf(file))

\* C1 witness: a finished run over pages listed in descending order, with a
\* skipped page between two written ones, written by a periodic and a final flush.
C1_Witness ==
    /\ variant = "pdf2mdv2"
    /\ pc = "done"
    /\ Len(image_files) >= 7
    /\ image_files = Descending(Len(image_files))
    /\ HasPeriodicFlush
    /\ HasFinalFlush
    /\ {1, 3, 7} \subseteq Range(PagesOf(file))
    /\ 2 \notin Range(PagesOf(file))
    /\ 6 \notin Range(PagesOf(file))

\* C2: when every page is extracted Ok and every write succeeds, a run of the
\* memory-tuned CLI over 12 pages makes exactly the three flushes after page 5,
\* after page 10 and the final one with pages 11-12, and a run over 10 pages
\* makes exactly the two flushes after page 5 and after page 10.
C2_FlushEvents ==
    (variant = "pdf2mdv2" /\ pc = "done" /\ okPages = pages /\ wfails = 0) =>
        /\ Len(pages) = 12 =>
              flushes = << FlushEvent(5, Fragments(1, 5), FALSE, TRUE),
                           FlushEvent(10, Fragments(6, 10), FALSE, TRUE),
                           FlushEvent(12, Fragments(11, 12), TRUE, TRUE) >>
        /\ Len(pages) = 10 =>
              flushes = << FlushEvent(5, Fragments(1, 5), FALSE, TRUE),
                           FlushEvent(10, Fragments(6, 10), FALSE, TRUE) >>

\* C2 witness: a finished 12-page run with every page Ok and three flushes.
C2_Witness ==
    /\ variant = "pdf2mdv2"
    /\ pc = "done"
    /\ Len(pages) = 12
    /\ okPages = pages
    /\ wfails = 0
    /\ Len(flushes) = 3

\* C3 as stated: a memory-tuned run that reaches Done has always performed a
\* final flush, also when nothing was left to write.
C3_FinalFlushUnconditional ==
    (variant \in MemoryTuned /\ pc = "done" /\ Len(pages) > 0) => HasFinalFlush

\* C3 amended: a memory-tuned run that reaches Done has performed a final flush
\* exactly when the content remaining after the loop was non-empty, and that
\* flush wrote exactly the remaining content.
C3_FinalFlushIffNonEmpty ==
    (variant \in MemoryTuned /\ pc = "done") =>
        /\ HasFinalFlush <=> combined_content # <<>>
        /\ HasFinalFlush =>
              /\ flushes[Len(flushes)] = FlushEvent(idx, combined_content, TRUE, TRUE)
              /\ \A k \in 1..(Len(flushes) - 1) : ~flushes[k].final

\* C3 witness: a run over 10 pages ends with nothing left after the flush at
\* page 10 and finishes without a final flush.
C3_Witness ==
    /\ variant = "pdf2mdv2"
    /\ pc = "done"
    /\ Len(pages) = 10
    /\ combined_content = <<>>
    /\ created
    /\ ~HasFinalFlush

ReadFailures == {"missing", "unreadable"}

ShapeFailures == {"notdict", "nomessage", "nocontent"}

ModelFailures == {"chat"} \cup ShapeFailures

\* C4 as stated: a run of the memory-tuned CLI ends with a propagated fatal
\* error only if the Page Source failed.
C4_FatalOnlyFromSource ==
    (variant = "pdf2mdv2" /\ pc = "fatal") =>
        raised \in {"SourceUnavailable", "ConversionError"}

\* C4 amended: once the Page Source has succeeded, the memory-tuned CLI handles
\* every page whatever pages fail, then reaches Done unless the final
\* save_output raises; a fatal error stems only from the Page Source or from
\* the final write.
C4_Terminates ==
    /\ [](variant = "pdf2mdv2" /\ pc = "fatal" =>
              raised \in {"SourceUnavailable", "ConversionError", "WriteError"})
    /\ (variant = "pdf2mdv2" /\ pc = "next") ~> (pc = "final" /\ idx = Len(pages))
    /\ (variant = "pdf2mdv2" /\ pc = "final") ~>
          (pc = "done" \/ (pc = "fatal" /\ raised = "WriteError"))

\* C4 witness: a run over at least three pages, all of which failed, is Done.
C4_Witness ==
    /\ variant = "pdf2mdv2"
    /\ pc = "done"
    /\ Len(pages) >= 3
    /\ idx = Len(pages)
    /\ okPages = <<>>
    /\ outcome \in ModelFailures

\* C5: in the memory-tuned CLI and the GUI v2, the step that finds a page's
\* file missing or unreadable issues no model call, appends and writes nothing,
\* and leaves the loop at its head, where the next page in sorted order is
\* taken (or the loop ends after the last page).
C5_NotFoundSkipsPage ==
    [][(variant \in MemoryTuned /\ pc = "next" /\ idx' = idx + 1
            /\ outcome' \in ReadFailures /\ pc' # "chat") =>
          /\ lastCalled' = lastCalled
          /\ image_data' = image_data
          /\ combined_content' = combined_content
          /\ file' = file
          /\ pc' = "next"
          /\ raised' = "None"]_vars

\* C5 witness: the page before was not found and the call for the page after
\* it is in flight.
C5_Witness ==
    /\ variant \in MemoryTuned
    /\ pc = "chat"
    /\ outcome \in ReadFailures
    /\ idx >= 2
    /\ lastCalled = pages[idx]

\* C6: in the memory-tuned CLI a response without the content field appends
\* nothing, writes nothing and leaves the loop at its head for the next page.
C6_BadShapeSkipsPage ==
    [][(variant = "pdf2mdv2" /\ pc = "chat" /\ outcome' \in ShapeFailures) =>
          /\ combined_content' = combined_content
          /\ okPages' = okPages
          /\ file' = file
          /\ idx' = idx
          /\ pc' = "next"
          /\ raised' = "None"]_vars

\* C6 witness: the page before had a response without content and the call for
\* the page after it is in flight.
C6_Witness ==
    /\ variant = "pdf2mdv2"
    /\ pc = "chat"
    /\ outcome = "nocontent"
    /\ idx >= 2
    /\ lastCalled = pages[idx]
    /\ pages[idx - 1] \notin Range(okPages)

\* C7: in the memory-tuned CLI an exception of ollama.chat for page i appends
\* nothing and leaves the loop at its head, and every call the loop issues is
\* for the page after the one handled last, so page i is not called again.
C7_ModelErrorSkipsPage ==
    [][/\ (variant = "pdf2mdv2" /\ pc = "chat" /\ outcome' = "chat") =>
              /\ combined_content' = combined_content
              /\ okPages' = okPages
              /\ file' = file
              /\ idx' = idx
              /\ pc' = "next"
              /\ raised' = "None"
       /\ (variant = "pdf2mdv2" /\ pc' = "chat") =>
              /\ pc = "next"
              /\ idx' = idx + 1
              /\ lastCalled' = pages[idx']
              /\ lastCalled' > lastCalled]_vars

\* C7 witness: the call for the page before raised and the call for the page
\* after it is in flight.
C7_Witness ==
    /\ variant = "pdf2mdv2"
    /\ pc = "chat"
    /\ outcome = "chat"
    /\ idx >= 2
    /\ lastCalled = pages[idx]
    /\ image_data = pages[idx]

\* C8: in every variant a model error or an unexpected response is terminal
\* for its page only: the loop and the run end only after the last page has
\* been handled, and a finished run has written the text of every Ok page.
C8_PageFailureIsLocal ==
    /\ (pc \in {"final", "done", "fatal", "error"} /\ outcome \in ModelFailures) =>
          idx = Len(pages)
    /\ pc = "done" => PagesOf(file) = okPages

\* C9: once a save_output call has failed, no further page is taken and no
\* further model call is issued.
C9_WriteErrorStopsRun ==
    [][HasFailedFlush => (idx' = idx /\ lastCalled' = lastCalled /\ pc' # "chat")]_vars

\* C10: with zero pages and a working Page Source, no variant ever calls the
\* model, flushes or creates the artifact, no error is raised, and the run
\* reaches Done.
C10_ZeroPages ==
    /\ []((image_files = <<>> /\ raised \notin {"SourceUnavailable", "ConversionError"}) =>
              /\ lastCalled = 0
              /\ flushes = <<>>
              /\ ~created
              /\ file = <<>>
              /\ raised = "None"
              /\ pc \in {"start", "next", "final", "done"})
    /\ (image_files = <<>> /\ pc # "start" /\ raised = "None") ~> (pc = "done")

\* C10 witness: a run of the memory-tuned CLI over zero pages is Done.
C10_Witness ==
    /\ variant = "pdf2mdv2"
    /\ image_files = <<>>
    /\ pc = "done"
    /\ ~created

\* C12: when the source directory cannot be listed the run ends at once with
\* the error (propagated out of main in the CLI scripts, displayed in the
\* GUIs): no page is taken, no model call issued, nothing written.
C12_SourceUnavailableAborts ==
    raised = "SourceUnavailable" =>
        /\ pc \in {"fatal", "error"}
        /\ variant = "pdf2mdv2" => pc = "fatal"
        /\ idx = 0
        /\ lastCalled = 0
        /\ flushes = <<>>
        /\ ~created
        /\ file = <<>>

\* C12 witness: the memory-tuned CLI has aborted on an unavailable source
\* although page images were there to process.
C12_Witness ==
    /\ variant = "pdf2mdv2"
    /\ raised = "SourceUnavailable"
    /\ pc = "fatal"
    /\ Len(image_files) >= 2

\* C13: in the memory-tuned scripts a source document whose rasterization
\* fails yields no pages and never ends the run: the pages of the other
\* documents are still processed.
C13_ConversionErrorIsLocal ==
    (variant \in MemoryTuned /\ corrupt /\ image_files # <<>>) =>
        (raised # "ConversionError" /\ (pc = "done" => idx = Len(pages)))

IsPrefix(a, b) == Len(a) <= Len(b) /\ SubSeq(b, 1, Len(a)) = a

\* C14: no variant retries: the page index never goes back, every model call
\* is for a later page than the call before it, and a fragment is appended
\* only for the page whose call has just returned, so a failed page is never
\* called again and never contributes content.
C14_NoRetries ==
    [][/\ idx' \in {idx, idx + 1}
       /\ (pc' = "chat" /\ pc # "chat") => (idx' = idx + 1 /\ lastCalled' > lastCalled)
       /\ (okPages' # okPages) =>
              /\ pc = "chat"
              /\ lastCalled = pages[idx]
              /\ okPages' = Append(okPages, pages[idx])
              /\ pages[idx] \notin Range(okPages)
       /\ Range(PagesOf(file' \o combined_content')) \subseteq Range(okPages')
       /\ (outcome' \in FailureKinds /\ idx' > 0) => pages[idx'] \notin Range(okPages')]_vars

\* C14 witness: a finished memory-tuned run in which page 1 failed and at least
\* two later pages were written.
C14_Witness ==
    /\ variant \in MemoryTuned
    /\ pc = "done"
    /\ Len(pages) >= 3
    /\ lastCalled > 1
    /\ 1 \notin Range(okPages)
    /\ 1 \notin Range(PagesOf(file))
    /\ Len(PagesOf(file)) >= 2

\* C15: in the memory-tuned CLI, as long as every write succeeds,
\* combined_content never holds the fragments of more than flush_every pages.
C15_AccumulatedBounded ==
    (variant = "pdf2mdv2" /\ wfails = 0) =>
        Len(PagesOf(combined_content)) <= FlushEvery

\* C16: in the memory-tuned CLI a model call is issued only from the loop head,
\* for the next page in ascending order, after the result of the page before
\* has been settled and, when that page was Ok at a multiple of flush_every,
\* after its periodic flush was attempted; a call in flight ends before
\* anything else happens.
C16_SerialAscending ==
    [][/\ pc = "chat" => pc' # "chat"
       /\ (variant = "pdf2mdv2" /\ pc' = "chat") =>
              /\ pc = "next"
              /\ idx' = idx + 1
              /\ lastCalled' = pages[idx']
              /\ \A k \in 1..idx : pages[k] < pages[idx']
              /\ idx > 0 => outcome # "None"
              /\ idx > 0 => (outcome = "Ok" <=> pages[idx] \in Range(okPages))
              /\ (idx > 0 /\ outcome = "Ok" /\ idx % FlushEvery = 0) =>
                    /\ flushes # <<>>
                    /\ flushes[Len(flushes)].after = idx]_vars

\* C16 witness: the call for page 6 is in flight after page 5 was Ok and its
\* periodic flush has been written.
C16_Witness ==
    /\ variant = "pdf2mdv2"
    /\ pc = "chat"
    /\ idx = 6
    /\ lastCalled = 6
    /\ 5 \in Range(PagesOf(file))
    /\ combined_content = <<>>

\* Idle = "start", Processing(index) = "next"/"chat" with idx, Flushing =
\* "flush" (periodic) and "final" (main's save step), Done = "done"
MachineSteps ==
    { <<"start", "next">>, <<"start", "fatal">>,
      <<"next", "next">>, <<"next", "chat">>, <<"chat", "next">>,
      <<"chat", "flush">>, <<"flush", "next">>, <<"next", "final">>,
      <<"final", "done">>, <<"final", "fatal">> }

\* C17: every step of the memory-tuned CLI is a step of the state machine: the
\* index grows by one exactly when a page is taken, Flushing is entered only
\* from Processing, Done only from the final step after the last page, and
\* Done is never left.
C17_StateMachine ==
    [][variant = "pdf2mdv2" =>
          /\ <<pc, pc'>> \in MachineSteps
          /\ idx' = IF pc = "next" /\ pc' \in {"next", "chat"} THEN idx + 1 ELSE idx
          /\ pc' = "flush" => pc = "chat"
          /\ pc' = "final" => (pc = "next" /\ idx = Len(pages))
          /\ pc' = "done" => (pc = "final" /\ idx = Len(pages))
          /\ pc # "done"]_vars

\* C17 witness: a finished run over at least six pages that went through a
\* periodic and a final flush.
C17_Witness ==
    /\ variant = "pdf2mdv2"
    /\ pc = "done"
    /\ idx = Len(pages)
    /\ idx >= 6
    /\ Len(flushes) = 2
    /\ ~flushes[1].final
    /\ flushes[2].final

\* C18: in every variant each step leaves the artifact's earlier content in
\* place as a prefix of its new content, and an artifact once created stays.
C18_AppendOnly ==
    [][IsPrefix(file, file') /\ (created => created')]_vars

\* C18 witness: content written by a periodic flush is in the artifact after
\* a later page failed and the run ended with a fatal write error.
C18_Witness ==
    /\ variant = "pdf2mdv2"
    /\ pc = "fatal"
    /\ raised = "WriteError"
    /\ outcome \in FailureKinds
    /\ created
    /\ file # <<>>

\* C19: in the memory-tuned scripts the image bytes are bound only while the
\* model call is in flight.
C19_BufferReleased ==
    (variant \in MemoryTuned /\ pc # "chat") => image_data = 0

\* C20: in the memory-tuned scripts every model call but the first is issued
\* after a pause that followed the call before it.
C20_PauseBetweenCalls ==
    [][(variant \in MemoryTuned /\ pc = "next" /\ pc' = "chat" /\ lastCalled # 0) =>
          slept]_vars

\* the content field of each page of s followed by the separator, in order
RECURSIVE Expected(_)
Expected(s) == IF s = <<>> THEN <<>> ELSE <<Head(s), 0>> \o Expected(Tail(s))

\* C21: when a run of the memory-tuned CLI is Done and no save_output failed,
\* the artifact is exactly the content field plus separator of every Ok page,
\* in page order, each once, and it exists exactly when some page was Ok.
C21_ExactlyOnce ==
    (variant = "pdf2mdv2" /\ pc = "done" /\ wfails = 0) =>
        /\ file = Expected(okPages)
        /\ IsAscending(okPages)
        /\ Range(okPages) \subseteq Range(pages)
        /\ created <=> okPages # <<>>

\* C21 witness: a finished 12-page run without write failure in which two
\* pages failed and the rest was written by periodic flushes and a final one.
C21_Witness ==
    /\ variant = "pdf2mdv2"
    /\ pc = "done"
    /\ wfails = 0
    /\ Len(pages) = 12
    /\ Len(okPages) = 10
    /\ HasPeriodicFlush
    /\ HasFinalFlush
    /\ Len(file) = 20

\* C22: in the memory-tuned CLI a failed periodic flush leaves the artifact
\* and combined_content as they were: the content it could not write is the
\* beginning of what is held afterwards and of what the next flush writes.
C22_FailedFlushKeepsContent ==
    variant = "pdf2mdv2" =>
        \A k \in 1..Len(flushes) :
            (~flushes[k].ok /\ ~flushes[k].final) =>
                /\ flushes[k].content # <<>>
                /\ IF k < Len(flushes)
                     THEN IsPrefix(flushes[k].content, flushes[k + 1].content)
                     ELSE IsPrefix(flushes[k].content, combined_content)

\* C22 witness: the flush after page 5 failed, and the flush after page 10
\* wrote the content of both batches.
C22_Witness ==
    /\ variant = "pdf2mdv2"
    /\ Len(flushes) >= 2
    /\ flushes[1] = FlushEvent(5, Fragments(1, 5), FALSE, FALSE)
    /\ flushes[2] = FlushEvent(10, Fragments(1, 10), FALSE, TRUE)
    /\ file = Fragments(1, 10)

====
